---- MODULE Spec2Model ----
(***************************************************************************)
(* Model of bytecode_graph.py: the Bytecode node class and the             *)
(* BytecodeGraph editor (decode, cross references, insertion, deletion,    *)
(* relocation, line table decoding/encoding, serialisation).               *)
(*                                                                         *)
(* Bytecode objects live in a heap: a sequence of records, the identity    *)
(* of an object being its index.  Python's None is the value None (-1),    *)
(* which is no index, no operand, no address and no line number.           *)
(* A Python exception ends the run: err names it, and the state keeps      *)
(* whatever the interrupted method had already assigned.                   *)
(***************************************************************************)
EXTENDS Integers, Sequences, FiniteSets, TLC

\* ------------------------------------------------------------------ bounds
MaxInstr == 3      \* instructions in the decoded stream
MaxOparg == 4      \* largest low operand byte of a decoded jump
MaxPairs == 2      \* (byte-delta, line-delta) pairs in the input line table
MaxFresh == 1      \* Bytecode objects created by the caller for add_node
MaxDelete == 2     \* delete_node calls
MaxBase  == 1      \* largest base address given to BytecodeGraph

\* --------------------------------------------------- the dis module's tables
HAVE_ARGUMENT == 90
POP_TOP       == 1
LOAD_CONST    == 100
JUMP_FORWARD  == 110
JUMP_ABSOLUTE == 113
hasjrel == {93, 110, 120, 121, 122, 143}
hasjabs == {111, 112, 113, 114, 115, 119}

None == -1

Min(a, b) == IF a < b THEN a ELSE b

\* d with key k bound to v (a dict assignment d[k] = v)
SetItem(d, k, v) == [a \in (DOMAIN d) \cup {k} |-> IF a = k THEN v ELSE d[a]]
\* d without key k (del d[k], the key being present)
DelItem(d, k) == [a \in (DOMAIN d) \ {k} |-> d[a]]
EmptyDict == [a \in {} |-> None]

\* x in the Python list l
In(x, l) == \E i \in 1..Len(l) : l[i] = x

\* ----------------------------------------------------------- class Bytecode
\* Bytecode.__init__: buffer is a slice of at most three bytes.  The caller
\* checks IndexOK first: ord(buffer[1]) raises IndexError on a short slice.
IndexOK(buffer) ==
    /\ Len(buffer) >= 1
    /\ buffer[1] >= HAVE_ARGUMENT => Len(buffer) >= 3

Bytecode(addr, buffer, prev) ==
    [opcode    |-> buffer[1],
     addr      |-> addr,
     oparg     |-> IF buffer[1] >= HAVE_ARGUMENT
                   THEN buffer[2] + 256 * buffer[3]   \* b1 | (b2 << 8)
                   ELSE None,
     prev      |-> prev,
     next      |-> None,
     xrefs     |-> << >>,
     target    |-> None,
     co_lnotab |-> None]

len(b) == IF b.opcode < HAVE_ARGUMENT THEN 1 ELSE 3

\* struct.pack("<BH", opcode, oparg) / struct.pack("<B", opcode)
PackOK(b) == b.opcode >= HAVE_ARGUMENT => (b.oparg >= 0 /\ b.oparg <= 65535)
bin(b) ==
    IF b.opcode >= HAVE_ARGUMENT
    THEN << b.opcode, b.oparg % 256, b.oparg \div 256 >>
    ELSE << b.opcode >>

get_target_addr(b) ==
    IF b.opcode \in hasjabs THEN b.oparg
    ELSE IF b.opcode \in hasjrel THEN b.addr + b.oparg + len(b)
    ELSE None

\* ------------------------------------------------------ class BytecodeGraph
\* nodes(start): the objects met from start (head when start is None)
\* following next, in order.
RECURSIVE walk(_, _, _)
walk(heap, current, fuel) ==
    IF current = None \/ fuel = 0 THEN << >>
    ELSE << current >> \o walk(heap, heap[current].next, fuel - 1)

nodes(heap, head, start) ==
    walk(heap, IF start = None THEN head ELSE start, Len(heap))

Range(s) == { s[i] : i \in 1..Len(s) }

\* The graph object while a method runs: g.heap, g.head, g.bytecodes, and
\* g.err, the exception that interrupted it ("none" while it runs).
Raise(g, e) == [g EXCEPT !.err = e]

\* apply_labels, second loop: the nodes order[k..] still to visit.
RECURSIVE label_loop(_, _, _)
\* label_loop with the test "label > 0": address 0 is never a jump target.
label_loop_positive(g, order, k) ==
    IF k > Len(order) \/ g.err # "none" THEN g
    ELSE LET current == order[k]
             b       == g.heap[current]
             label   == IF b.opcode >= HAVE_ARGUMENT
                        THEN IF b.opcode \in hasjrel THEN b.addr + b.oparg + len(b)
                             ELSE IF b.opcode \in hasjabs THEN b.oparg
                             ELSE -1
                        ELSE -1
         IN IF label > 0
            THEN IF label \notin DOMAIN g.bytecodes
                 THEN Raise(g, "KeyError")
                 ELSE LET t  == g.bytecodes[label]
                          h1 == IF In(current, g.heap[t].xrefs) THEN g.heap
                                ELSE [g.heap EXCEPT ![t].xrefs = Append(@, current)]
                          h2 == [h1 EXCEPT ![current].target = t]
                      IN label_loop([g EXCEPT !.heap = h2], order, k + 1)
            ELSE label_loop(g, order, k + 1)

label_loop(g, order, k) ==
    IF k > Len(order) \/ g.err # "none" THEN g
    ELSE LET current == order[k]
             b       == g.heap[current]
             label   == IF b.opcode >= HAVE_ARGUMENT
                        THEN IF b.opcode \in hasjrel THEN b.addr + b.oparg + len(b)
                             ELSE IF b.opcode \in hasjabs THEN b.oparg
                             ELSE -1
                        ELSE -1
         IN IF label >= 0
            THEN IF label \notin DOMAIN g.bytecodes
                 THEN Raise(g, "KeyError")
                 ELSE LET t  == g.bytecodes[label]
                          h1 == IF In(current, g.heap[t].xrefs) THEN g.heap
                                ELSE [g.heap EXCEPT ![t].xrefs = Append(@, current)]
                          h2 == [h1 EXCEPT ![current].target = t]
                      IN label_loop([g EXCEPT !.heap = h2], order, k + 1)
            ELSE label_loop(g, order, k + 1)

\* apply_labels without the loop that clears xrefs and target.
apply_labels_no_clear(g, start) ==
    label_loop(g, nodes(g.heap, g.head, start), 1)

\* apply_labels that only appends: nothing is cleared first and a referrer
\* is appended without looking for it in the list.
apply_labels_append(g, start) ==
    LET order == nodes(g.heap, g.head, start)
        step[k \in 0..Len(order)] ==
            IF k = 0 THEN g
            ELSE LET p == step[k - 1]
                     b == p.heap[order[k]]
                 IN IF p.err # "none" \/ b.opcode \notin hasjrel \cup hasjabs THEN p
                    ELSE IF get_target_addr(b) \notin DOMAIN p.bytecodes
                         THEN Raise(p, "KeyError")
                         ELSE LET t == p.bytecodes[get_target_addr(b)]
                              IN [p EXCEPT !.heap[t].xrefs = Append(@, order[k]),
                                           !.heap[order[k]].target = t]
    IN step[Len(order)]

apply_labels(g, start) ==
    LET order   == nodes(g.heap, g.head, start)
        cleared == [i \in 1..Len(g.heap) |->
                      IF i \in Range(order)
                      THEN [g.heap[i] EXCEPT !.xrefs = << >>, !.target = None]
                      ELSE g.heap[i]]
    IN label_loop([g EXCEPT !.heap = cleared], order, 1)

\* parse_bytecode, the while loop: p carries the graph under construction,
\* the local prev and the local list targets.
RECURSIVE parse_loop(_, _, _, _)
parse_loop(p, co_code, base, offset) ==
    IF offset >= Len(co_code) THEN p
    ELSE LET buffer == SubSeq(co_code, offset + 1, Min(offset + 3, Len(co_code)))
         IN IF ~IndexOK(buffer) THEN Raise(p, "IndexError")
            ELSE LET id  == Len(p.heap) + 1
                     nxt == Bytecode(base + offset, buffer, p.prev)
                     h1  == Append(p.heap, nxt)
                     bc1 == SetItem(p.bytecodes, base + offset, id)
                 IN IF offset \notin DOMAIN bc1
                    THEN [p EXCEPT !.heap = h1, !.bytecodes = bc1, !.err = "KeyError"]
                    ELSE LET offset1 == offset + len(h1[bc1[offset]])
                             h2 == IF p.prev # None
                                   THEN [h1 EXCEPT ![p.prev].next = id] ELSE h1
                             t  == get_target_addr(nxt)
                         IN parse_loop([p EXCEPT !.heap = h2, !.bytecodes = bc1,
                                                 !.prev = id,
                                                 !.targets = IF t # None THEN Append(@, t)
                                                             ELSE @],
                                       co_code, base, offset1)

\* The addresses parse_bytecode prints as "Nonlinear issue at offset".
Nonlinear(p) == { x \in Range(p.targets) : x \notin DOMAIN p.bytecodes }

parse_bytecode(co_code, base) ==
    LET p0 == [heap |-> << >>, head |-> None, bytecodes |-> EmptyDict,
               err |-> "none", prev |-> None, targets |-> << >>,
               printed |-> {}]
        p1 == parse_loop(p0, co_code, base, 0)
    IN IF p1.err # "none" THEN p1
       ELSE LET p2 == [p1 EXCEPT !.printed = Nonlinear(p1)]
            IN IF base \notin DOMAIN p2.bytecodes THEN Raise(p2, "KeyError")
               ELSE apply_labels([p2 EXCEPT !.head = p2.bytecodes[base]], None)

\* apply_lineno: the (addr, lineno) breakpoints accumulated from the zipped
\* byte and line increments co_lnotab[0::2], co_lnotab[1::2].
RECURSIVE accumulate(_, _, _, _)
accumulate(co_lnotab, k, addr, lineno) ==
    IF 2 * k > Len(co_lnotab) THEN << >>
    ELSE LET a == addr + co_lnotab[2 * k - 1]
             l == lineno + co_lnotab[2 * k]
         IN << << a, l >> >> \o accumulate(co_lnotab, k + 1, a, l)

\* apply_lineno, the for loop over the nodes order[k..].
RECURSIVE lineno_loop(_, _, _, _, _, _, _)
lineno_loop(heap, order, k, current_addr, current_lineno, next_lineno, linenos) ==
    IF k > Len(order) THEN heap
    ELSE LET x   == order[k]
             hit == heap[x].addr >= current_addr
             cl  == IF hit THEN next_lineno ELSE current_lineno
             pop == hit /\ Len(linenos) # 0
             ca  == IF pop THEN linenos[1][1] ELSE current_addr
             nl  == IF pop THEN linenos[1][2] ELSE next_lineno
             ls  == IF pop THEN Tail(linenos) ELSE linenos
         IN lineno_loop([heap EXCEPT ![x].co_lnotab = cl], order, k + 1,
                        ca, cl, nl, ls)

apply_lineno(g, co_lnotab, co_firstlineno, base) ==
    LET linenos == accumulate(co_lnotab, 1, base, co_firstlineno)
    IN IF linenos = << >> THEN g
       ELSE IF Len(linenos) < 2 THEN Raise(g, "IndexError")
       ELSE [g EXCEPT !.heap =
               lineno_loop(g.heap, nodes(g.heap, g.head, None), 1,
                           linenos[2][1], linenos[1][2], linenos[2][2],
                           Tail(Tail(linenos)))]

\* BytecodeGraph.__init__
BytecodeGraph(code, base) ==
    LET p == parse_bytecode(code.co_code, base)
        g == [heap |-> p.heap, head |-> p.head, bytecodes |-> p.bytecodes,
              err |-> p.err]
    IN [graph   |-> IF g.err # "none" THEN g
                    ELSE apply_lineno(g, code.co_lnotab, code.co_firstlineno, base),
        printed |-> p.printed]

\* The line delta byte calc_lnotab packs.
line_delta(delta) == delta % 256           \* (...) & 0xff

\* calc_lnotab, the for loop: r.out is rvalue.
RECURSIVE lnotab_loop(_, _, _, _, _, _)
\* lnotab_loop that never moves prev_offset: every byte-delta is measured
\* from the head's address.
lnotab_loop_from_head(heap, order, k, prev_lineno, prev_offset, r) ==
    IF k > Len(order) THEN r
    ELSE LET current == heap[order[k]]
         IN IF current.co_lnotab = prev_lineno
            THEN lnotab_loop(heap, order, k + 1, prev_lineno, prev_offset, r)
            ELSE IF current.co_lnotab = None
            THEN [r EXCEPT !.err = "TypeError"]
            ELSE LET d == current.addr - prev_offset
                 IN IF d < 0 \/ d > 255
                    THEN [r EXCEPT !.err = "struct.error"]
                    ELSE lnotab_loop(heap, order, k + 1,
                                     current.co_lnotab, prev_offset,
                                     [r EXCEPT !.out = @ \o
                                        << d, line_delta(current.co_lnotab - prev_lineno) >>])

lnotab_loop(heap, order, k, prev_lineno, prev_offset, r) ==
    IF k > Len(order) THEN r
    ELSE LET current == heap[order[k]]
         IN IF current.co_lnotab = prev_lineno
            THEN lnotab_loop(heap, order, k + 1, prev_lineno, prev_offset, r)
            ELSE IF current.co_lnotab = None
            THEN [r EXCEPT !.err = "TypeError"]      \* None - int
            ELSE LET d == current.addr - prev_offset
                 IN IF d < 0 \/ d > 255
                    THEN [r EXCEPT !.err = "struct.error"]
                    ELSE lnotab_loop(heap, order, k + 1,
                                     current.co_lnotab, current.addr,
                                     [r EXCEPT !.out = @ \o
                                        << d, line_delta(current.co_lnotab - prev_lineno) >>])

calc_lnotab(g, co_firstlineno) ==
    IF g.head = None THEN [out |-> << >>, err |-> "AttributeError"]
    ELSE lnotab_loop(g.heap, nodes(g.heap, g.head, None), 1,
                     co_firstlineno, g.heap[g.head].addr,
                     [out |-> << >>, err |-> "none"])

IsJumpOp(opcode) == opcode \in hasjrel \/ opcode \in hasjabs

\* patched_oparg measuring a relative jump from its own address.
patched_oparg_from_start(b, t) ==
    IF b.opcode \in hasjrel THEN t.addr - b.addr
    ELSE t.addr

\* The operand patch_opargs stores in the jump b whose target is t.
patched_oparg(b, t) ==
    IF b.opcode \in hasjrel THEN t.addr - (b.addr + len(b))
    ELSE t.addr

RECURSIVE patch_loop(_, _, _)
\* patch_loop leaving alone a jump that has no target.
patch_loop_skip_none(g, order, k) ==
    IF k > Len(order) THEN g
    ELSE LET current == order[k]
             b == g.heap[current]
         IN IF IsJumpOp(b.opcode) /\ b.target # None
            THEN patch_loop([g EXCEPT !.heap[current].oparg =
                                patched_oparg(b, g.heap[b.target])],
                            order, k + 1)
            ELSE patch_loop(g, order, k + 1)

patch_loop(g, order, k) ==
    IF k > Len(order) THEN g
    ELSE LET current == order[k]
             b == g.heap[current]
         IN IF b.opcode < HAVE_ARGUMENT THEN patch_loop(g, order, k + 1)
            ELSE IF b.opcode \in hasjrel \/ b.opcode \in hasjabs
            THEN IF b.target = None THEN Raise(g, "AttributeError")
                 ELSE patch_loop([g EXCEPT !.heap[current].oparg =
                                     patched_oparg(b, g.heap[b.target])],
                                 order, k + 1)
            ELSE patch_loop(g, order, k + 1)

patch_opargs(g, start) == patch_loop(g, nodes(g.heap, g.head, start), 1)

\* refactor, the for loop: nb is new_bytecodes.
RECURSIVE addr_loop(_, _, _, _, _)
\* addr_loop advancing by one byte whatever the instruction's length.
addr_loop_by_one(heap, order, k, offset, nb) ==
    IF k > Len(order) THEN [heap |-> heap, bytecodes |-> nb]
    ELSE LET current == order[k]
         IN addr_loop([heap EXCEPT ![current].addr = offset], order, k + 1,
                      offset + 1, SetItem(nb, offset, current))

addr_loop(heap, order, k, offset, nb) ==
    IF k > Len(order) THEN [heap |-> heap, bytecodes |-> nb]
    ELSE LET current == order[k]
         IN addr_loop([heap EXCEPT ![current].addr = offset], order, k + 1,
                      offset + len(heap[current]), SetItem(nb, offset, current))

\* refactor that resolves cross references before it patches the operands.
refactor_labels_first(g, base) ==
    LET a  == addr_loop(g.heap, nodes(g.heap, g.head, None), 1, base, EmptyDict)
        g1 == [g EXCEPT !.heap = a.heap, !.bytecodes = a.bytecodes]
        g2 == apply_labels(g1, None)
    IN IF g2.err # "none" THEN g2 ELSE patch_opargs(g2, None)

refactor(g, base) ==
    LET a  == addr_loop(g.heap, nodes(g.heap, g.head, None), 1, base, EmptyDict)
        g1 == [g EXCEPT !.heap = a.heap, !.bytecodes = a.bytecodes]
        g2 == patch_opargs(g1, None)
    IN IF g2.err # "none" THEN g2 ELSE apply_labels(g2, None)

\* add_node without "parent.next.prev = bc".
add_node_no_backlink(g, parent, bc, lnotab) ==
    LET nxt == g.heap[parent].next
        h1  == [g.heap EXCEPT ![bc].next = nxt, ![bc].prev = parent,
                              ![bc].co_lnotab = IF lnotab = None
                                                THEN g.heap[parent].co_lnotab
                                                ELSE lnotab]
    IN [g EXCEPT !.heap = [h1 EXCEPT ![parent].next = bc]]

add_node(g, parent, bc, lnotab) ==
    LET nxt == g.heap[parent].next
        h1  == [g.heap EXCEPT ![bc].next = nxt, ![bc].prev = parent,
                              ![bc].co_lnotab = IF lnotab = None
                                                THEN g.heap[parent].co_lnotab
                                                ELSE lnotab]
        h2  == IF nxt # None THEN [h1 EXCEPT ![nxt].prev = bc] ELSE h1
    IN [g EXCEPT !.heap = [h2 EXCEPT ![parent].next = bc]]

\* delete_node, the for loop over node.xrefs[k..].
RECURSIVE redirect_loop(_, _, _, _)
\* redirect_loop leaving the referrers' targets on the deleted node.
redirect_loop_none(heap, xrefs, k, nxt) == heap

\* redirect_loop not adding the referrers to the successor's xrefs.
redirect_loop_no_xref(heap, xrefs, k, nxt) ==
    IF k > Len(xrefs) THEN heap
    ELSE redirect_loop([heap EXCEPT ![xrefs[k]].target = nxt], xrefs, k + 1, nxt)

redirect_loop(heap, xrefs, k, nxt) ==
    IF k > Len(xrefs) THEN heap
    ELSE LET x  == xrefs[k]
             h1 == [heap EXCEPT ![x].target = nxt]
             h2 == IF nxt # None THEN [h1 EXCEPT ![nxt].xrefs = Append(@, x)] ELSE h1
         IN redirect_loop(h2, xrefs, k + 1, nxt)

\* delete_node without "if node == self.head: self.head = node.next".
delete_node_keep_head(g, node) ==
    LET n  == g.heap[node]
        h1 == redirect_loop(g.heap, n.xrefs, 1, n.next)
        h2 == IF n.prev # None THEN [h1 EXCEPT ![n.prev].next = n.next] ELSE h1
        h3 == IF n.next # None THEN [h2 EXCEPT ![n.next].prev = n.prev] ELSE h2
        g1 == [g EXCEPT !.heap = h3]
    IN IF n.addr \notin DOMAIN g.bytecodes THEN Raise(g1, "KeyError")
       ELSE [g1 EXCEPT !.bytecodes = DelItem(g.bytecodes, n.addr)]

delete_node(g, node) ==
    LET n  == g.heap[node]
        h1 == redirect_loop(g.heap, n.xrefs, 1, n.next)
        h2 == IF n.prev # None THEN [h1 EXCEPT ![n.prev].next = n.next] ELSE h1
        h3 == IF n.next # None THEN [h2 EXCEPT ![n.next].prev = n.prev] ELSE h2
        hd == IF node = g.head THEN n.next ELSE g.head
        g1 == [g EXCEPT !.heap = h3, !.head = hd]
    IN IF n.addr \notin DOMAIN g.bytecodes THEN Raise(g1, "KeyError")
       ELSE [g1 EXCEPT !.bytecodes = DelItem(g.bytecodes, n.addr)]

\* get_code, the serialisation loop over order[k..]: r.out is new_co_code.
RECURSIVE code_loop(_, _, _, _)
code_loop(heap, order, k, r) ==
    IF k > Len(order) THEN r
    ELSE LET x == heap[order[k]]
         IN IF ~PackOK(x) THEN [r EXCEPT !.err = "struct.error"]
            ELSE code_loop(heap, order, k + 1, [r EXCEPT !.out = @ \o bin(x)])

\* get_code: the graph it leaves, and what it returns: << >> when it raises,
\* else the one-element sequence holding the new code object.
get_code(g, code, base, start) ==
    LET g1 == refactor(g, base)
        ln == calc_lnotab(g1, code.co_firstlineno)
        cc == code_loop(g1.heap, nodes(g1.heap, g1.head, start), 1,
                        [out |-> << >>, err |-> "none"])
    IN IF g1.err # "none" THEN [graph |-> g1, rvalue |-> << >>]
       ELSE IF ln.err # "none" THEN [graph |-> Raise(g1, ln.err), rvalue |-> << >>]
       ELSE IF cc.err # "none" THEN [graph |-> Raise(g1, cc.err), rvalue |-> << >>]
       ELSE [graph  |-> g1,
             rvalue |-> << [co_code |-> cc.out, co_lnotab |-> ln.out,
                            co_firstlineno |-> code.co_firstlineno] >>]

\* ------------------------------------------------------------------ inputs
\* Instructions of the input streams: a no-operand opcode, an ordinary
\* operand (low and high byte set), relative and absolute jumps.
Instrs ==
    { << POP_TOP >>, << LOAD_CONST, 1, 1 >> }
    \cup { << op, lo, 0 >> : op \in {JUMP_FORWARD, JUMP_ABSOLUTE}, lo \in 0..MaxOparg }

RECURSIVE Flatten(_)
Flatten(ss) == IF ss = << >> THEN << >> ELSE Head(ss) \o Flatten(Tail(ss))

RECURSIVE SeqsUpTo(_, _)
SeqsUpTo(S, n) ==
    IF n = 0 THEN { << >> }
    ELSE LET shorter == SeqsUpTo(S, n - 1)
         IN shorter \cup { Append(s, x) : s \in shorter, x \in S }

\* Streams of whole instructions, and two streams cut inside an operand.
Streams ==
    { Flatten(ss) : ss \in SeqsUpTo(Instrs, MaxInstr) }
    \cup { << LOAD_CONST >>, << POP_TOP, JUMP_ABSOLUTE, 0 >> }

\* Line tables: byte strings of (byte-delta, line-delta) pairs.
Pairs  == { << b, l >> : b \in {0, 1, 3}, l \in {0, 1, 2} }
Tables == { Flatten(ps) : ps \in SeqsUpTo(Pairs, MaxPairs) }

\* The stream and the table every other input is combined with.
PlainStream == << POP_TOP, LOAD_CONST, 1, 1, POP_TOP >>
PlainTable  == << 0, 1, 1, 1 >>

Bases      == 0..MaxBase
FirstLines == {1}

\* What the caller passes to Bytecode(addr, buffer) and add_node(.., lnotab).
\* An address that is and one that is not a key of the lookup, a no-operand
\* instruction and a jump, the parent's line, a line a few lines away and a
\* line more than 255 away.
FreshArgs ==
    { [addr |-> 0, buffer |-> << POP_TOP >>,             lnotab |-> None],
      [addr |-> 7, buffer |-> << POP_TOP >>,             lnotab |-> 300],
      [addr |-> 0, buffer |-> << JUMP_ABSOLUTE, 0, 0 >>, lnotab |-> 9] }

\* ------------------------------------------------------------------- state
VARIABLES
    code,        \* the code object given to BytecodeGraph: co_code, co_lnotab, co_firstlineno
    base,        \* self.base
    heap,        \* the Bytecode objects
    head,        \* self.head
    bytecodes,   \* self.bytecodes
    err,         \* the exception that ended the run, "none" if none did
    printed,     \* the addresses printed as nonlinear by parse_bytecode
    rvalue,      \* what get_code returned, when it was the last call
    op,          \* the last method called
    whole,       \* the last call was get_code with start = None
    edits,       \* the edits made since construction
    decoded,     \* the heap as construction left it
    del,         \* the node last deleted, its xrefs and successor then
    dangling,    \* get_code was just called while a jump in the list had no target
    ins,         \* the arguments of add_node, when it was the last call
    repeat       \* the last two calls were get_code with the same start

vars == << code, base, heap, head, bytecodes, err, printed, rvalue, op, whole,
           edits, decoded, del, dangling, ins, repeat >>

graph == [heap |-> heap, head |-> head, bytecodes |-> bytecodes, err |-> err]

InList == Range(nodes(heap, head, None))

IsJump(b) == b.opcode \in hasjrel \/ b.opcode \in hasjabs

Dangling == \E i \in InList : IsJump(heap[i]) /\ heap[i].target = None

\* The start arguments of get_code: none, or the second node of the list.
Starts == {None} \cup { n \in InList : heap[n].prev = head }

NoDel == [node |-> None, xrefs |-> {}, next |-> None]
NoIns == [parent |-> None, bc |-> None, lnotab |-> None, made |-> None]

Init ==
    /\ code \in [co_code : Streams, co_lnotab : Tables, co_firstlineno : FirstLines]
    /\ \/ code.co_code = PlainStream
       \/ code.co_lnotab = PlainTable /\ code.co_firstlineno = 1
    /\ base \in Bases
    /\ heap = << >>
    /\ head = None
    /\ bytecodes = EmptyDict
    /\ err = "none"
    /\ printed = {}
    /\ rvalue = << >>
    /\ op = "new"
    /\ whole = FALSE
    /\ edits = "none"
    /\ decoded = << >>
    /\ del = NoDel
    /\ dangling = FALSE
    /\ ins = NoIns
    /\ repeat = FALSE

Adopt(g) ==
    /\ heap' = g.heap
    /\ head' = g.head
    /\ bytecodes' = g.bytecodes
    /\ err' = g.err

\* g = BytecodeGraph(code, base)
Construct ==
    /\ op = "new"
    /\ LET r == BytecodeGraph(code, base)
       IN /\ Adopt(r.graph)
          /\ printed' = r.printed
          /\ decoded' = r.graph.heap
    /\ op' = "construct"
    /\ UNCHANGED << code, base, rvalue, whole, edits, del, dangling, ins, repeat >>

Ready == op # "new" /\ err = "none"

\* The edits made since construction: "none", "adds" while they are all
\* insertions of no-operand instructions, "other" after anything else.
Edited(kind) == IF edits = "other" \/ kind = "other" THEN "other" ELSE kind

\* g.add_node(parent, Bytecode(addr, buffer), lnotab)
AddNode ==
    /\ Ready
    /\ Len(heap) < Len(decoded) + MaxFresh
    /\ \E parent \in InList, a \in FreshArgs :
          LET bc == Len(heap) + 1
              g  == [graph EXCEPT !.heap = Append(heap, Bytecode(a.addr, a.buffer, None))]
          IN /\ Adopt(add_node(g, parent, bc, a.lnotab))
             /\ ins' = [parent |-> parent, bc |-> bc, lnotab |-> a.lnotab,
                        made |-> Bytecode(a.addr, a.buffer, None)]
             /\ edits' = Edited(IF a.buffer[1] < HAVE_ARGUMENT THEN "adds" ELSE "other")
    /\ op' = "add_node"
    /\ del' = NoDel
    /\ rvalue' = << >>
    /\ whole' = FALSE
    /\ dangling' = FALSE
    /\ repeat' = FALSE
    /\ UNCHANGED << code, base, printed, decoded >>

\* g.delete_node(node)
DeleteNode ==
    /\ Ready
    /\ Len(heap) - Cardinality(InList) < MaxDelete
    /\ \E node \in InList :
          /\ Adopt(delete_node(graph, node))
          /\ del' = [node |-> node, xrefs |-> Range(heap[node].xrefs),
                     next |-> heap[node].next]
    /\ op' = "delete_node"
    /\ edits' = "other"
    /\ ins' = NoIns
    /\ repeat' = FALSE
    /\ rvalue' = << >>
    /\ whole' = FALSE
    /\ dangling' = FALSE
    /\ UNCHANGED << code, base, printed, decoded >>

\* g.refactor()
Refactor ==
    /\ Ready
    /\ Adopt(refactor(graph, base))
    /\ op' = "refactor"
    /\ del' = IF op = "delete_node" THEN del ELSE NoDel
    /\ ins' = NoIns
    /\ repeat' = FALSE
    /\ rvalue' = << >>
    /\ whole' = FALSE
    /\ dangling' = FALSE
    /\ UNCHANGED << code, base, printed, edits, decoded >>

\* g.apply_labels()
ApplyLabels ==
    /\ Ready
    /\ Adopt(apply_labels(graph, None))
    /\ op' = "apply_labels"
    /\ del' = NoDel
    /\ edits' = "other"
    /\ ins' = NoIns
    /\ repeat' = FALSE
    /\ rvalue' = << >>
    /\ whole' = FALSE
    /\ dangling' = FALSE
    /\ UNCHANGED << code, base, printed, decoded >>

\* g.get_code(start)
GetCode ==
    /\ Ready
    /\ \E start \in Starts :
          LET r == get_code(graph, code, base, start)
          IN /\ Adopt(r.graph)
             /\ rvalue' = r.rvalue
             /\ whole' = (start = None)
             /\ repeat' = (op = "get_code" /\ whole = (start = None))
    /\ op' = "get_code"
    /\ ins' = NoIns
    /\ dangling' = Dangling
    /\ del' = IF op = "delete_node" THEN del ELSE NoDel
    /\ UNCHANGED << code, base, printed, edits, decoded >>

Next ==
    \/ Construct
    \/ AddNode
    \/ DeleteNode
    \/ Refactor
    \/ ApplyLabels
    \/ GetCode

Spec == Init /\ [][Next]_vars

\* ------------------------------------------------------------------ claims
ListOrder == nodes(heap, head, None)

\* The offsets at which a stream's instructions start.
RECURSIVE InstrOffsets(_, _)
InstrOffsets(c, o) ==
    IF o >= Len(c) THEN {}
    ELSE {o} \cup InstrOffsets(c, o + (IF c[o + 1] < HAVE_ARGUMENT THEN 1 ELSE 3))

\* A stream is well formed: not empty, every operand-taking opcode has its
\* two operand bytes, every jump lands on the start of an instruction.
WellFormed(c) ==
    /\ c # << >>
    /\ \A o \in InstrOffsets(c, 0) :
          c[o + 1] >= HAVE_ARGUMENT =>
             /\ o + 3 <= Len(c)
             /\ c[o + 1] \in hasjabs => (c[o + 2] + 256 * c[o + 3]) \in InstrOffsets(c, 0)
             /\ c[o + 1] \in hasjrel =>
                   (o + 3 + c[o + 2] + 256 * c[o + 3]) \in InstrOffsets(c, 0)

\* get_code() was just called on the graph as decoded (no add_node,
\* delete_node or direct apply_labels since construction).
Reencoded == op = "get_code" /\ whole /\ edits = "none"

\* C1: for a well-formed stream decoded at base 0, get_code with no mutation
\* in between returns a co_code equal to the original stream.
C1_RoundTripCode ==
    (Reencoded /\ base = 0 /\ WellFormed(code.co_code)) =>
        /\ rvalue # << >>
        /\ rvalue[1].co_code = code.co_code

\* C2: for every line table (the empty one, one-pair ones and those whose
\* first byte-delta is not 0 included), construction decodes it and get_code
\* with no mutation in between returns a co_lnotab equal to the original.
C2_RoundTripLnotab ==
    (base = 0 /\ WellFormed(code.co_code)) =>
        /\ op = "construct" => err = "none"
        /\ Reencoded => /\ rvalue # << >>
                        /\ rvalue[1].co_lnotab = code.co_lnotab

\* The fresh no-operand nodes inserted so far.
Fresh == { n \in InList : n > Len(decoded) }

\* Relocation just completed, by refactor or within a get_code that returned.
Relocated == op \in {"refactor", "get_code"} /\ err = "none"

\* C3: after insertions of fresh no-operand instructions followed by
\* relocation, every decoded jump has the target object it had after decoding
\* and its operand is the displacement (relative) or the address (absolute)
\* of that target under the new addresses.
C3_InsertionPreservesFlow ==
    (Relocated /\ edits = "adds") =>
        \A i \in 1..Len(decoded) :
            IsJump(heap[i]) =>
                /\ heap[i].target = decoded[i].target
                /\ heap[i].target # None
                /\ heap[i].opcode \in hasjrel =>
                      heap[i].oparg = heap[heap[i].target].addr
                                        - (heap[i].addr + len(heap[i]))
                /\ heap[i].opcode \in hasjabs =>
                      heap[i].oparg = heap[heap[i].target].addr

\* A relocation after an insertion between a relative jump and its target.
C3_Witness ==
    /\ Relocated /\ edits = "adds"
    /\ \E i \in 1..Len(decoded), f \in Fresh :
          /\ heap[i].opcode \in hasjrel
          /\ heap[i].target # None
          /\ heap[i].addr < heap[f].addr
          /\ heap[f].addr < heap[heap[i].target].addr
          /\ heap[i].oparg # decoded[i].oparg

\* C4: when a node with a successor m is deleted and the graph relocated,
\* every referrer of the deleted node still in the list has target m and is
\* in m.xrefs.
C4_DeletionRedirect ==
    (Relocated /\ del.node # None /\ del.next # None) =>
        \A r \in del.xrefs \cap InList :
            /\ heap[r].target = del.next
            /\ In(r, heap[del.next].xrefs)

\* A relocation after the deletion of a jump target that had a successor.
C4_Witness ==
    /\ Relocated /\ del.node # None /\ del.next # None
    /\ del.xrefs \cap InList # {}

\* The run is between two complete operations on a constructed graph.
Between == op # "new" /\ err = "none"

\* C5 as stated: for every node n in the list and every node object r, r is
\* in n.xrefs exactly when r.target is n.
C5_XrefSymmetryAllObjects ==
    Between =>
        \A n \in InList : \A r \in 1..Len(heap) :
            In(r, heap[n].xrefs) <=> heap[r].target = n

\* C5 amended: for every node n in the list, every member of n.xrefs has
\* target n, and every node r in the list whose target is n is in n.xrefs.
C5_XrefSymmetry ==
    Between =>
        \A n \in InList :
            /\ \A r \in Range(heap[n].xrefs) : heap[r].target = n
            /\ \A r \in InList : heap[r].target = n => In(r, heap[n].xrefs)

\* A jump target was deleted and its referrer, still in the list, now refers
\* to the successor.
C5_Witness ==
    /\ Between /\ op = "delete_node"
    /\ del.next # None
    /\ \E r \in del.xrefs \cap InList : In(r, heap[del.next].xrefs)

\* C6: after refactor completes on a non-empty graph, the head is at the
\* base address, every other node is at prev.addr + prev.len(), and the
\* lookup maps exactly each in-list node's address to that node.
C6_AddressContiguity ==
    (Relocated /\ head # None) =>
        /\ heap[head].addr = base
        /\ \A n \in InList \ {head} :
              /\ heap[n].prev \in InList
              /\ heap[n].addr = heap[heap[n].prev].addr + len(heap[heap[n].prev])
        /\ DOMAIN bytecodes = { heap[n].addr : n \in InList }
        /\ \A n \in InList : bytecodes[heap[n].addr] = n

\* A relocation of a graph that lost a node and gained one.
C6_Witness ==
    /\ op = "refactor" /\ err = "none" /\ head # None
    /\ Fresh # {}
    /\ Cardinality(InList) < Len(heap)
    /\ \E n \in InList : heap[n].addr # base /\ len(heap[n]) = 3

\* C7: get_code called while a jump in the list has target None ends in an
\* error and returns nothing.
C7_DanglingFails ==
    (op = "get_code" /\ dangling) => (err # "none" /\ rvalue = << >>)

\* get_code called right after the last instruction, a jump target, was
\* deleted.
C7_Witness ==
    /\ op = "get_code" /\ dangling
    /\ del.node # None /\ del.next = None /\ del.xrefs \cap InList # {}

\* C8: a stream with a jump to an address that is no decoded instruction's
\* is reported and still decoded: construction completes, every node is
\* linked, and the jump has no target and is in no xrefs.
C8_NonlinearNonFatal ==
    (op = "construct" /\ printed # {}) =>
        /\ err = "none"
        /\ Len(ListOrder) = Cardinality(InstrOffsets(code.co_code, 0))
        /\ \A i \in InList :
              get_target_addr(decoded[i]) \in printed =>
                 /\ heap[i].target = None
                 /\ \A n \in InList : ~In(i, heap[n].xrefs)

\* The line a decoded instruction at address a has by the line table: that
\* of the last breakpoint at or before a, the first line number if none.
RefLine(a) ==
    LET bps == accumulate(code.co_lnotab, 1, base, code.co_firstlineno)
        at  == { k \in 1..Len(bps) : bps[k][1] <= a }
    IN IF at = {} THEN code.co_firstlineno
       ELSE bps[CHOOSE k \in at : \A j \in at : j <= k][2]

\* C9: after construction every instruction's line is the reference line of
\* its address.
C9_LinenoDecoding ==
    (op = "construct" /\ base = 0 /\ WellFormed(code.co_code)) =>
        /\ err = "none"
        /\ \A n \in InList : heap[n].co_lnotab = RefLine(heap[n].addr)

\* The table of the claim: a pair for each node whose line differs from the
\* last emitted one, each delta clamped to 255.
RECURSIVE ClampedTable(_, _, _, _)
ClampedTable(order, k, prev_lineno, prev_offset) ==
    IF k > Len(order) THEN << >>
    ELSE LET current == heap[order[k]]
         IN IF current.co_lnotab = prev_lineno
            THEN ClampedTable(order, k + 1, prev_lineno, prev_offset)
            ELSE << Min(current.addr - prev_offset, 255),
                    Min(current.co_lnotab - prev_lineno, 255) >>
                 \o ClampedTable(order, k + 1, current.co_lnotab, current.addr)

\* C10: every pair calc_lnotab emits holds min(address delta, 255) and
\* min(line delta, 255).
C10_LnotabClamps ==
    (op = "get_code" /\ rvalue # << >>) =>
        rvalue[1].co_lnotab =
            ClampedTable(ListOrder, 1, code.co_firstlineno, heap[head].addr)

\* C11: decoding honours the base address. For a well-formed stream and
\* any base b >= 0 the constructor succeeds and leaves one node per
\* instruction, the node of stream offset o has addr = b + o, each node's
\* successor starts right after it, and head is the node with addr = b.
\* (Line tables of exactly one pair are left out: the constructor fails on
\* them in apply_lineno, after decoding.)
C11_DecodeHonoursBase ==
    (op = "construct" /\ WellFormed(code.co_code) /\ Len(code.co_lnotab) # 2) =>
        /\ err = "none"
        /\ Len(ListOrder) = Cardinality(InstrOffsets(code.co_code, 0))
        /\ { heap[n].addr : n \in InList }
              = { base + o : o \in InstrOffsets(code.co_code, 0) }
        /\ \A n \in InList :
              heap[n].next # None =>
                 heap[heap[n].next].addr = heap[n].addr + len(heap[n])
        /\ head # None
        /\ heap[head].addr = base

\* The lookup maps exactly the addresses of the nodes in the list, each to
\* its node.
LookupMatches ==
    /\ DOMAIN bytecodes = { heap[n].addr : n \in InList }
    /\ \A n \in InList : bytecodes[heap[n].addr] = n

\* Every jump in the list lands on the address of a node in the list.
Lands ==
    \A n \in InList :
       IsJump(heap[n]) => get_target_addr(heap[n]) \in DOMAIN bytecodes

\* C12: when the lookup matches the nodes' addresses and every jump lands
\* on an instruction boundary, apply_labels (called directly or by the
\* constructor) raises no KeyError and leaves each relative jump's target
\* the node at addr + oparg + len(), each absolute jump's target the node
\* at oparg (address 0 included), every other node's target None, and in
\* each node's xrefs exactly the nodes of the list that target it. (The
\* constructor reaches apply_labels only once it has set head.)
C12_LabelResolution ==
    (/\ op = "apply_labels" \/ (op = "construct" /\ head # None)
     /\ LookupMatches
     /\ Lands) =>
        /\ err # "KeyError"
        /\ \A n \in InList :
              LET b == heap[n]
              IN /\ b.opcode \in hasjrel =>
                       /\ b.target \in InList
                       /\ heap[b.target].addr = b.addr + b.oparg + len(b)
                 /\ b.opcode \in hasjabs =>
                       /\ b.target \in InList
                       /\ heap[b.target].addr = b.oparg
                 /\ ~IsJump(b) => b.target = None
                 /\ Range(b.xrefs) = { r \in InList : heap[r].target = n }

\* The stream [POP_TOP, JUMP_ABSOLUTE 0, POP_TOP] decoded at base 0 and
\* resolved again: the jump at address 1 targets the node at address 0,
\* whose xrefs hold exactly that jump.
C12_Witness ==
    /\ op = "apply_labels"
    /\ err = "none"
    /\ LookupMatches
    /\ code.co_code = << POP_TOP, JUMP_ABSOLUTE, 0, 0, POP_TOP >>
    /\ ListOrder = << 1, 2, 3 >>
    /\ heap[1].addr = 0
    /\ heap[2].addr = 1
    /\ heap[2].target = 1
    /\ heap[1].xrefs = << 2 >>

\* C13: after a relocation that completed, whatever add_node and
\* delete_node calls came before, every node in the list has a target that
\* is None or a node in the list, and every member of its xrefs is a node
\* in the list: no deleted node is reachable through target or xrefs.
C13_NoStaleReferences ==
    Relocated =>
        \A n \in InList :
           /\ heap[n].target = None \/ heap[n].target \in InList
           /\ Range(heap[n].xrefs) \subseteq InList

\* A jump that referred to a node of the list was deleted, then the graph
\* was relocated, and that node is still in the list.
C13_Witness ==
    /\ op = "refactor"
    /\ err = "none"
    /\ del.node # None
    /\ IsJump(heap[del.node])
    /\ heap[del.node].target \in InList
    /\ del.node \notin InList

\* C14: add_node(parent, bc, line) with a fresh bc makes bc the successor
\* of parent, makes parent's old successor follow bc with its prev set to
\* bc, and gives bc the given line, or parent's when none is given. It
\* changes nothing else: no node's opcode, addr, oparg, target, xrefs, no
\* other node's line or links, no lookup entry, and not head.
C14_AddNodeFrame ==
    [][ op' = "add_node" =>
          LET parent == ins'.parent
              bc     == ins'.bc
              old    == heap[parent].next
          IN /\ err' = "none"
             /\ bc = Len(heap) + 1
             /\ Len(heap') = bc
             /\ heap'[parent].next = bc
             /\ heap'[bc].prev = parent
             /\ heap'[bc].next = old
             /\ old # None => heap'[old].prev = bc
             /\ heap'[bc].co_lnotab = IF ins'.lnotab # None THEN ins'.lnotab
                                      ELSE heap[parent].co_lnotab
             /\ \A f \in {"opcode", "addr", "oparg", "target", "xrefs"} :
                   heap'[bc][f] = ins'.made[f]
             /\ \A n \in 1..Len(heap) :
                   /\ \A f \in {"opcode", "addr", "oparg", "target", "xrefs",
                                 "co_lnotab"} : heap'[n][f] = heap[n][f]
                   /\ n # parent => heap'[n].next = heap[n].next
                   /\ n # old => heap'[n].prev = heap[n].prev
             /\ bytecodes' = bytecodes
             /\ head' = head ]_vars

\* A fresh node was just inserted with a line of its own between two nodes
\* of the list.
C14_Witness ==
    /\ op = "add_node"
    /\ err = "none"
    /\ ins.lnotab # None
    /\ heap[ins.bc].next # None
    /\ heap[heap[ins.bc].next].prev = ins.bc
    /\ heap[ins.parent].next = ins.bc

\* C15: delete_node(node), for any node in the list (decoded, or inserted
\* by add_node since the last relocation), succeeds, leaves no lookup
\* entry that maps to the deleted node, and leaves every entry of every
\* other node in place.
C15_DeleteRemovesEntry ==
    [][ op' = "delete_node" =>
          /\ err' = "none"
          /\ \A a \in DOMAIN bytecodes' : bytecodes'[a] # del'.node
          /\ \A a \in DOMAIN bytecodes :
                bytecodes[a] # del'.node =>
                   /\ a \in DOMAIN bytecodes'
                   /\ bytecodes'[a] = bytecodes[a] ]_vars

\* C16: in every state after decode and any sequence of add_node,
\* delete_node, refactor and apply_labels calls that completed, no node's
\* xrefs holds the same referrer twice.
C16_XrefsDuplicateFree ==
    Between =>
        \A n \in 1..Len(heap) :
           \A i, j \in 1..Len(heap[n].xrefs) :
              heap[n].xrefs[i] = heap[n].xrefs[j] => i = j

\* delete_node just moved a referrer of the deleted node to its successor,
\* which had a referrer of its own.
C16_Witness ==
    /\ op = "delete_node"
    /\ err = "none"
    /\ del.next # None
    /\ del.xrefs # {}
    /\ del.xrefs \subseteq Range(heap[del.next].xrefs)
    /\ Range(heap[del.next].xrefs) \ del.xrefs # {}

\* The list from head is finite and acyclic, head has no predecessor, and
\* each successor points back.
ListOK ==
    /\ Cardinality(InList) = Len(ListOrder)
    /\ ListOrder # << >> => heap[ListOrder[Len(ListOrder)]].next = None
    /\ head # None => heap[head].prev = None
    /\ \A n \in InList : heap[n].next # None => heap[heap[n].next].prev = n

\* C17: after decode and any sequence of add_node (fresh node, parent in
\* the list) and delete_node (node in the list) the list is well formed
\* (ListOK); delete_node takes exactly the deleted node out of the list and
\* keeps the order of the others; deleting head makes its former successor
\* head (None when the list becomes empty); and while no node has been
\* inserted, head is the node of lowest address left in the list.
C17_ListWellFormed ==
    [][ Between' =>
          /\ ListOK'
          /\ op' = "delete_node" =>
                /\ del'.node \in InList
                /\ ListOrder' = SelectSeq(ListOrder, LAMBDA x : x # del'.node)
                /\ head' = IF del'.node = head THEN heap[head].next ELSE head
          /\ (Len(heap') = Len(decoded') /\ head' # None) =>
                \A n \in InList' : heap'[head'].addr <= heap'[n].addr ]_vars

\* The head was just deleted and its former successor is the head now.
C17_Witness ==
    /\ op = "delete_node"
    /\ err = "none"
    /\ heap[del.node].prev = None
    /\ del.next # None
    /\ head = del.next
    /\ heap[head].prev = None
    /\ del.node \notin InList

\* The line of the k-th node of the list; the first line number for k = 0.
LineAt(k) == IF k = 0 THEN code.co_firstlineno ELSE heap[ListOrder[k]].co_lnotab

\* The positions in the list of the nodes whose line differs from the last
\* emitted line, which is the line of the node before (the node before
\* either emitted its line or had the last emitted line).
Emitters == { k \in 1..Len(ListOrder) : LineAt(k) # LineAt(k - 1) }

\* The address of the last emitter before position k; head's when none.
LastEmittedAddr(k) ==
    LET E == { j \in Emitters : j < k }
    IN IF E = {} THEN heap[head].addr
       ELSE heap[ListOrder[CHOOSE j \in E : \A i \in E : i <= j]].addr

\* Every delta the table has to hold fits a byte.
DeltasFit ==
    \A k \in Emitters :
       /\ heap[ListOrder[k]].addr - LastEmittedAddr(k) \in 0..255
       /\ LineAt(k) - LineAt(k - 1) \in 0..255

\* C18: when every delta is within 0..255, the table get_code returns
\* holds one pair for each node whose line differs from the last emitted
\* line (starting from head's address and the first line number), in list
\* order: the node's address minus the last emitted address, and its line
\* minus the last emitted line.
C18_LnotabEmission ==
    (op = "get_code" /\ rvalue # << >> /\ DeltasFit) =>
        LET t == rvalue[1].co_lnotab
        IN /\ Len(t) = 2 * Cardinality(Emitters)
           /\ \A k \in Emitters :
                 LET i == Cardinality({ j \in Emitters : j <= k })
                 IN /\ t[2 * i - 1] = heap[ListOrder[k]].addr - LastEmittedAddr(k)
                    /\ t[2 * i] = LineAt(k) - LineAt(k - 1)

\* get_code returned a table of two pairs, the second measured from the
\* first emitter and not from head, while some node emitted nothing.
C18_Witness ==
    /\ op = "get_code"
    /\ rvalue # << >>
    /\ DeltasFit
    /\ Cardinality(Emitters) = 2
    /\ Len(ListOrder) > 2
    /\ \E k \in Emitters : LastEmittedAddr(k) > heap[head].addr
    /\ Len(rvalue[1].co_lnotab) = 4

\* C19 as stated: within one refactor the addresses are reassigned first,
\* the lookup is rebuilt second, apply_labels runs third and patch_opargs
\* last. Stated on what refactor leaves: the graph after refactor is the
\* graph those four steps produce in that order.
C19_LabelsThenPatch ==
    [][ op' = "refactor" => graph' = refactor_labels_first(graph, base) ]_vars

\* C19: within one refactor the operands are patched before the cross
\* references are resolved again. Stated on what refactor leaves: every
\* jump of the list keeps the target object it had before the call, its
\* operand is that target's new address (absolute) or the displacement to
\* it from the end of the jump (relative), and the lookup built for the new
\* layout resolves that operand to the same target.
C19_PatchThenLabels ==
    [][ (op' = "refactor" /\ err' = "none") =>
          \A n \in InList :
             IsJump(heap[n]) =>
                LET b == heap'[n]
                    t == heap[n].target
                IN /\ b.target = t
                   /\ t \in InList'
                   /\ b.oparg = IF b.opcode \in hasjabs THEN heap'[t].addr
                                ELSE heap'[t].addr - (b.addr + len(b))
                   /\ bytecodes'[get_target_addr(b)] = t ]_vars

\* After an insertion, refactor gave a decoded jump a new operand and left
\* it the target it had after decoding.
C19_Witness ==
    /\ op = "refactor"
    /\ err = "none"
    /\ Fresh # {}
    /\ \E n \in InList :
          /\ n <= Len(decoded)
          /\ IsJump(heap[n])
          /\ heap[n].oparg # decoded[n].oparg
          /\ heap[n].target = decoded[n].target

\* C20: when get_code has returned and is called again from the same start
\* with no other call in between, the second call returns the same co_code
\* and co_lnotab and leaves every node (addr, oparg, target, xrefs and
\* links), the lookup and head as they were.
C20_GetCodeIdempotent ==
    [][ (op = "get_code" /\ rvalue # << >> /\ op' = "get_code" /\ whole' = whole) =>
          /\ err' = "none"
          /\ rvalue' = rvalue
          /\ heap' = heap
          /\ bytecodes' = bytecodes
          /\ head' = head ]_vars

\* get_code returned twice in a row on a graph that holds an inserted node
\* and a jump.
C20_Witness ==
    /\ op = "get_code"
    /\ repeat
    /\ rvalue # << >>
    /\ Fresh # {}
    /\ \E n \in InList : IsJump(heap[n]) /\ heap[n].target # None

====
